---- MODULE Spec2Model ----
(***************************************************************************)
(* The crawl scheduling and retry pipeline of reddit_crawler.py: the two   *)
(* Faktory job handlers crawl_subreddit and crawl_post, reschedule_job,    *)
(* the bootstrap schedule_initial_crawls and the start_reddit_crawl.py     *)
(* script, over a job queue (a bag of jobs) and the two Postgres tables.   *)
(***************************************************************************)
EXTENDS Integers, Sequences, FiniteSets, Bags, TLC

VARIABLES
    queue,            \* the broker: bag of pushed jobs not yet fetched by a worker
    reddit_posts,     \* table reddit_posts: post_id -> committed row
    reddit_comments,  \* table reddit_comments: comment_id -> committed row
    now,              \* the clock read by datetime.now / NOW(); one tick per handler run
    booted,           \* schedule_initial_crawls has run
    external,         \* jobs pushed so far from outside this process
    last,             \* the most recent operation: what ran, what it saw, what it pushed
    workers           \* per worker of the consumer: the database transaction it has open

vars == <<queue, reddit_posts, reddit_comments, now, booted, external, last, workers>>

----------------------------------------------------------------------------
(* Bounds of the model. *)

\* handler runs in one behaviour of Spec (the clock stops there)
MaxTime == 2
\* handler runs in one behaviour of RetrySpec, where no request is answered with data:
\* more than the MaxRetries + 1 runs of one retry chain
MaxRetryTime == 6
\* handler runs in one behaviour of StoreSpec
MaxStoreTime == 3
\* length of the id lists find_new_posts is applied to in DiffSpec
MaxListLen == 2
\* pushes from outside this process: runs of start_reddit_crawl.py and jobs that
\* logging-reddit-crawler.py leaves on the shared queues
MaxExternal == 1

----------------------------------------------------------------------------
(* Configuration and the value universes the inputs are drawn from. *)

\* config.json as load_config returns it (a sample configuration)
CONFIG ==
    [ subreddits     |-> << [name |-> "f1", crawl_interval |-> 10],
                            [name |-> "f2"] >>,
      crawl_settings |-> [ crawl_interval |-> 5,
                           recrawl_delays |-> <<1, 3>>,
                           consumer_concurrency |-> 2 ] ]

\* subreddit names the start script may be given: the configured ones and one that is not
SubredditArgs == {"f1", "fx"}
\* values of a post's 'score' and of a comment's
Scores == {-1, 0, 1}
CommentScores == {0, 1}
\* random.uniform(0.75, 1.25), in percent: the two ends of the interval
Jitters == {75, 125}

\* max_retries: the default of reschedule_job, which no caller overrides
MaxRetries == 5
\* base_delay: the default of calculate_backoff, which no caller overrides
BaseDelay == 60

\* the empty dict {} and the empty list []
EmptyDict == [k \in {} |-> 0]
EmptyList == << >>

\* the iteration orders of a Python set: its elements as a sequence, each once
Orders(S) ==
    { s \in [1 .. Cardinality(S) -> S] : \A i, j \in 1 .. Cardinality(S) : s[i] = s[j] => i = j }

Range(s) == { s[i] : i \in DOMAIN s }

----------------------------------------------------------------------------
(* reddit_client.py *)

\* What one HTTP exchange can be: the status of the GET, or a failure before it.
HttpOutcomes == {"200", "404", "429", "500", "connection_error", "token_error"}

\* RedditClient.get_subreddit_new / get_post_comments through execute_request:
\* 429 raises RateLimitException, 404 and every other requests error return None,
\* a failed token request raises out of get_access_token, 200 returns the JSON.
execute_request(http, json_data) ==
    CASE http = "429"         -> [kind |-> "rate_limit", data |-> EmptyList]
      [] http = "404"         -> [kind |-> "none", data |-> EmptyList]
      [] http = "200"         -> [kind |-> "json", data |-> json_data]
      [] http = "token_error" -> [kind |-> "exception", data |-> EmptyList]
      [] OTHER                -> [kind |-> "none", data |-> EmptyList]

\* the fault of treating every failed request as retriable, like a rate limit
RaisesRateLimitExceptionOrFails(resp) == resp.kind \in {"rate_limit", "none"}

\* `except RateLimitException` around the request: taken when the client raised it
RaisesRateLimitException(resp) == resp.kind = "rate_limit"

\* `if not current_listing` / `if not post_data`: None is falsy
Falsy(resp) == resp.kind = "none"

\* the JSON of /r/<subreddit>/new: data.children[i].data.id
ListingOf(ids) ==
    [ data |-> [ children |-> [ i \in 1 .. Len(ids) |-> [data |-> [id |-> ids[i]]] ] ] ]

\* the listings the API may return: empty, one id, two ids, an id repeated
ListingIds == { <<>>, <<"p1">>, <<"p2">>, <<"p2", "p1">>, <<"p1", "p1">> }
Listings == { ListingOf(ids) : ids \in ListingIds }

----------------------------------------------------------------------------
(* Jobs *)

\* pyfaktory Job(jobtype, args, queue, at); `at` is kept as the offset from the push
Job(jobtype, args, q, at) == [jobtype |-> jobtype, args |-> args, queue |-> q, at |-> at]

\* no `at`: the job is due at once
Immediately == <<"now", 0>>
Seconds(n) == <<"seconds", n>>
Minutes(n) == <<"minutes", n>>
Days(n) == <<"days", n>>

\* producer.push, once per job of the sequence, in order
RECURSIVE PushAll(_, _)
PushAll(q, jobs) ==
    IF jobs = << >> THEN q
    ELSE PushAll(q (+) SetToBag({Head(jobs)}), Tail(jobs))

\* a worker's FETCH takes one copy of the job off the queue
Fetch(q, job) == q (-) SetToBag({job})

\* binding of a handler's trailing `metadata: dict = None` parameter, then `metadata or {}`
MetadataOrEmpty(args, n) == IF Len(args) >= n THEN args[n] ELSE EmptyDict

\* dict.get(key, default)
Get(d, key, default) == IF key \in DOMAIN d THEN d[key] ELSE default

\* dict.update(other): the keys of other overwrite or extend d
Update(d, other) ==
    [ k \in DOMAIN d \cup DOMAIN other |-> IF k \in DOMAIN other THEN other[k] ELSE d[k] ]

----------------------------------------------------------------------------
(* Retry policy *)

RECURSIVE Pow2(_)
Pow2(n) == IF n = 0 THEN 1 ELSE 2 * Pow2(n - 1)

\* the fault of round() in place of int(): the delay is rounded to the nearest second
calculate_backoff_rounded(retry_count, base_delay, jitter) ==
    (base_delay * Pow2(retry_count) * jitter + 50) \div 100

\* calculate_backoff: int(base_delay * 2**retry_count * jitter), jitter in percent;
\* int() truncates, and the product is positive, so it is the floor
calculate_backoff(retry_count, base_delay, jitter) ==
    (base_delay * Pow2(retry_count) * jitter) \div 100

\* the off-by-one fault of the retry cap: one more retry is allowed
MaxRetriesExceededStrict(retry_count, max_retries) == retry_count > max_retries

\* `if retry_count >= max_retries: return False`
MaxRetriesExceeded(retry_count, max_retries) == retry_count >= max_retries

\* the fault where the retry count is written back without the increment
UpdatedMetadataNoIncrement(metadata, retry_count, t) ==
    Update(metadata,
           [ retry_count      |-> retry_count,
             previous_retries |-> Append(Get(metadata, "previous_retries", EmptyList), t) ])

\* the fault where the update replaces the retry history instead of extending it
UpdatedMetadataOverwriting(metadata, retry_count, t) ==
    Update(metadata, [retry_count |-> retry_count + 1, previous_retries |-> <<t>>])

\* the fault where the new timestamp is put in front of the retry history
UpdatedMetadataPrepending(metadata, retry_count, t) ==
    Update(metadata,
           [ retry_count      |-> retry_count + 1,
             previous_retries |-> <<t>> \o Get(metadata, "previous_retries", EmptyList) ])

\* the metadata of the rescheduled job: metadata.update({...})
UpdatedMetadata(metadata, retry_count, t) ==
    Update(metadata,
           [ retry_count      |-> retry_count + 1,
             previous_retries |-> Append(Get(metadata, "previous_retries", EmptyList), t) ])

\* reschedule_job(producer, jobtype, args, queue) with retry_count=None and the default
\* max_retries; both callers pass a dict as the last element of args.
\* Returns the function's result and the jobs it pushed.
reschedule_job(jobtype, args, q, jitter, t) ==
    LET metadata    == args[Len(args)]
        retry_count == Get(metadata, "retry_count", 0)
        delay       == calculate_backoff(retry_count, BaseDelay, jitter)
        new_args    == Append(SubSeq(args, 1, Len(args) - 1),
                              UpdatedMetadata(metadata, retry_count, t))
    IN  IF MaxRetriesExceeded(retry_count, MaxRetries)
        THEN [ret |-> FALSE, pushed |-> << >>]
        ELSE [ret |-> TRUE,  pushed |-> << Job(jobtype, new_args, q, Seconds(delay)) >>]

----------------------------------------------------------------------------
(* The handlers' except clauses *)

\* isinstance(exception, class) over the classes the handlers' bodies raise: HTTPError
\* (the token request), ConnectionError (the broker), psycopg2.Error, KeyError and
\* UnboundLocalError all derive from Exception
IsInstance(exception, class) == class = "Exception" \/ class = exception

\* the fault of handlers that catch database errors only
ExceptClausesDatabaseOnly(handler) ==
    IF handler = "crawl_post" THEN {"psycopg2.Error"} ELSE {}

\* the classes named by the except clauses around each handler's body: line 284 for
\* crawl_subreddit, lines 226 and 228 for crawl_post
ExceptClauses(handler) ==
    IF handler = "crawl_post" THEN {"psycopg2.Error", "Exception"} ELSE {"Exception"}

\* How a run ends when its body raises: with the log line of the clause that catches the
\* exception, or "raised" when no clause does and the exception leaves the handler.
Except(handler, exception, logged) ==
    IF \E class \in ExceptClauses(handler) : IsInstance(exception, class)
    THEN logged ELSE "raised"

----------------------------------------------------------------------------
(* crawl_subreddit *)

\* get_subreddit_config: the first configured subreddit of that name, or None (here
\* the empty dict); no handler calls it
get_subreddit_config(subreddit_name) ==
    LET found == { i \in DOMAIN CONFIG.subreddits : CONFIG.subreddits[i].name = subreddit_name }
    IN  IF found = {} THEN EmptyDict
        ELSE CONFIG.subreddits[CHOOSE i \in found : \A j \in found : i <= j]

\* subreddit_names: the names of the configured subreddits
ConfiguredNames == { CONFIG.subreddits[i].name : i \in DOMAIN CONFIG.subreddits }

\* post_ids_from_listing
post_ids_from_listing(listing) ==
    IF "data" \in DOMAIN listing /\ "children" \in DOMAIN listing.data
    THEN [ i \in 1 .. Len(listing.data.children) |-> listing.data.children[i].data.id ]
    ELSE EmptyList

\* the fault of the symmetric difference (set ^ set): ids that left the listing count
\* as new
find_new_posts_symmetric(previous_post_ids, current_post_ids) ==
    (Range(current_post_ids) \ Range(previous_post_ids))
    \cup (Range(previous_post_ids) \ Range(current_post_ids))

\* find_new_posts: set(current_post_ids) - set(previous_post_ids)
find_new_posts(previous_post_ids, current_post_ids) ==
    Range(current_post_ids) \ Range(previous_post_ids)

\* the fault where a rate-limited poll is rescheduled with an empty snapshot
RescheduleArgsSubredditEmptySnapshot(subreddit_name, previous_post_ids, metadata) ==
    <<subreddit_name, EmptyList, metadata>>

\* the args handed to reschedule_job on a rate limit (line 244)
RescheduleArgsSubreddit(subreddit_name, previous_post_ids, metadata) ==
    <<subreddit_name, previous_post_ids, metadata>>

\* the fault where the jobs for new posts start with a retry already counted
NewPostJobsRetried(subreddit_name, order) ==
    [ i \in 1 .. Len(order) |->
        Job("crawl-post",
            <<subreddit_name, order[i], FALSE, [retry_count |-> 1, previous_retries |-> <<0>>]>>,
            "crawl-post", Immediately) ]

\* the loop of lines 263-268: one crawl-post job per new post, in the set's iteration order
NewPostJobs(subreddit_name, order) ==
    [ i \in 1 .. Len(order) |->
        Job("crawl-post", <<subreddit_name, order[i], FALSE, EmptyDict>>, "crawl-post", Immediately) ]

\* next_job of lines 275-278
NextJob(subreddit_name, current_post_ids) ==
    Job("crawl-subreddit", <<subreddit_name, current_post_ids, EmptyDict>>, "crawl-subreddit",
        Minutes(CONFIG.crawl_settings.crawl_interval))

\* line 279, producer.push(job): `job` is the loop variable of lines 263-268, so the
\* last crawl-post job is pushed a second time and next_job is not pushed; with no new
\* post the name is unbound and the statement raises UnboundLocalError.
ContinuationPush(post_jobs, next_job) ==
    IF post_jobs = << >>
    THEN [raised |-> TRUE,  pushed |-> << >>]
    ELSE [raised |-> FALSE, pushed |-> << post_jobs[Len(post_jobs)] >>]

\* The handler: what it pushes and how it ends, for a job's args, the client's answer
\* resp, the broker being reachable (qok), the jitter drawn and the iteration order of
\* the new_posts set. The outcome names the log line the run ends with: "complete",
\* "failed" (no listing), "rescheduled", "max_retries", or the exception the
\* `except Exception` branch of line 284 logs.
crawl_subreddit(args, resp, qok, jitter, order, t) ==
    LET subreddit_name    == args[1]
        previous_post_ids == args[2]
        metadata          == MetadataOrEmpty(args, 3)
    IN  CASE resp.kind = "exception" ->
               [ outcome |-> Except("crawl_subreddit", "HTTPError", "client_error"),
                 pushed  |-> << >> ]
          [] RaisesRateLimitException(resp) ->
               IF ~qok THEN [ outcome |-> Except("crawl_subreddit", "ConnectionError", "queue_error"),
                              pushed  |-> << >> ]
               ELSE LET r == reschedule_job("crawl-subreddit",
                                            RescheduleArgsSubreddit(subreddit_name, previous_post_ids, metadata),
                                            "crawl-subreddit", jitter, t)
                    IN  [ outcome |-> IF r.ret THEN "rescheduled" ELSE "max_retries",
                          pushed  |-> r.pushed ]
          [] Falsy(resp) ->
               [outcome |-> "failed", pushed |-> << >>]
          [] OTHER ->
               LET current_post_ids == post_ids_from_listing(resp.data)
                   post_jobs        == NewPostJobs(subreddit_name, order)
                   cont             == ContinuationPush(post_jobs,
                                                        NextJob(subreddit_name, current_post_ids))
               IN  IF ~qok THEN [ outcome |-> Except("crawl_subreddit", "ConnectionError", "queue_error"),
                                  pushed  |-> << >> ]
                   ELSE [ outcome |-> IF cont.raised
                                      THEN Except("crawl_subreddit", "UnboundLocalError",
                                                  "unbound_local_error")
                                      ELSE "complete",
                          pushed  |-> post_jobs \o cont.pushed ]

----------------------------------------------------------------------------
(* crawl_post *)

\* The JSON of /comments/<post_id>: post_data[0] holds the post (main_post), post_data[1]
\* its comments. A comment carries the fields the INSERT reads; a "more" stub of the
\* comment tree carries an id but no author, score or body.
Comment(id, score) == [id |-> id, author |-> "a", score |-> score]
MoreStub(id) == [id |-> id]
PostData(score, children) == [main_post |-> [score |-> score], children |-> children]
\* the comment trees the API may return: none, one comment, a stub, a comment then a stub
CommentTrees ==
    { <<>> } \cup { <<Comment("c1", score)>> : score \in CommentScores }
    \cup { <<Comment("c1", 1), MoreStub("c1")>> }
PostJson == { PostData(score, children) : score \in Scores, children \in CommentTrees }

\* the two tables as one value
Tables(posts, comments) == [posts |-> posts, comments |-> comments]

\* the fault of ON CONFLICT (post_id) DO NOTHING: the row of the first crawl stays
UpsertPostDoNothing(posts, subreddit, post_id, main_post, t) ==
    IF post_id \in DOMAIN posts THEN posts
    ELSE posts @@ (post_id :> [ subreddit    |-> subreddit,
                                score        |-> main_post.score,
                                last_updated |-> t,
                                crawled_at   |-> t ])

\* INSERT INTO reddit_posts ... ON CONFLICT (post_id) DO UPDATE SET title, score, data,
\* last_updated, crawled_at: subreddit, author and created_utc keep their first value
UpsertPost(posts, subreddit, post_id, main_post, t) ==
    IF post_id \in DOMAIN posts
    THEN [ posts EXCEPT ![post_id] =
             [ @ EXCEPT !.score = main_post.score, !.last_updated = t, !.crawled_at = t ] ]
    ELSE posts @@ (post_id :> [ subreddit    |-> subreddit,
                                score        |-> main_post.score,
                                last_updated |-> t,
                                crawled_at   |-> t ])

\* INSERT INTO reddit_comments ... ON CONFLICT (comment_id) DO UPDATE SET score, body,
\* data, last_updated, crawled_at: post_id keeps its first value
UpsertComment(comments, post_id, comment_data, t) ==
    IF comment_data.id \in DOMAIN comments
    THEN [ comments EXCEPT ![comment_data.id] =
             [ @ EXCEPT !.score = comment_data.score, !.last_updated = t, !.crawled_at = t ] ]
    ELSE comments @@ (comment_data.id :> [ post_id      |-> post_id,
                                           score        |-> comment_data.score,
                                           last_updated |-> t,
                                           crawled_at   |-> t ])

\* the loop of lines 197-214 over the first n comments of the response
RECURSIVE UpsertComments(_, _, _, _, _)
UpsertComments(comments, post_id, children, n, t) ==
    IF n = 0 THEN comments
    ELSE UpsertComment(UpsertComments(comments, post_id, children, n - 1, t),
                       post_id, children[n], t)

\* comment_data['author'] and the other subscripts of lines 208-213 raise KeyError on a stub
RaisesKeyError(comment_data) == ~ ({"id", "author", "score"} \subseteq DOMAIN comment_data)

\* The statements of the transaction of lines 176-216, numbered: 1 psycopg2.connect,
\* 2 the post's INSERT, 2+k the k-th comment's INSERT, Len+3 conn.commit().
\* db_fail is the statement at which the database fails (0: it does not).
\* FailedStatement is the first statement that raises, 0 when none does.
FailedStatement(children, db_fail) ==
    LET raising == { 2 + k : k \in { i \in DOMAIN children : RaisesKeyError(children[i]) } }
                   \cup (IF db_fail = 0 THEN {} ELSE {db_fail})
    IN  IF raising = {} THEN 0
        ELSE CHOOSE f \in raising : \A g \in raising : f <= g

\* the class of the exception that ends the transaction: the KeyError of a stub's
\* missing field, raised while the arguments of cur.execute are built, or the
\* psycopg2.Error of the statement at which the database fails
RaisedInTransaction(children, db_fail) ==
    LET f == FailedStatement(children, db_fail)
    IN  IF (f - 2) \in DOMAIN children /\ RaisesKeyError(children[f - 2])
        THEN "KeyError" ELSE "psycopg2.Error"

\* the tables as the open transaction sees them when statement f is about to run
Executed(tables, subreddit, post_id, data, f, t) ==
    IF f <= 2 THEN tables
    ELSE Tables(UpsertPost(tables.posts, subreddit, post_id, data.main_post, t),
                UpsertComments(tables.comments, post_id, data.children, f - 3, t))

\* the fault of a connection in autocommit mode: every executed statement stays
TransactionAutocommit(tables, subreddit, post_id, data, db_fail, t) ==
    LET f == FailedStatement(data.children, db_fail)
    IN  IF f = 0
        THEN [ committed |-> TRUE,
               tables    |-> Executed(tables, subreddit, post_id, data, Len(data.children) + 3, t) ]
        ELSE [ committed |-> FALSE,
               tables    |-> Executed(tables, subreddit, post_id, data, f, t) ]

\* the fault of a transaction block that swallows the exception: the rows are rolled
\* back and the handler goes on as after a commit
TransactionSwallowing(tables, subreddit, post_id, data, db_fail, t) ==
    LET f == FailedStatement(data.children, db_fail)
    IN  IF f = 0
        THEN [ committed |-> TRUE,
               tables    |-> Executed(tables, subreddit, post_id, data, Len(data.children) + 3, t) ]
        ELSE [ committed |-> TRUE, tables |-> tables ]

\* `with psycopg2.connect(...) as conn:` commits when the block ends normally and rolls
\* back when an exception leaves it, so a failed transaction leaves the tables as found.
Transaction(tables, subreddit, post_id, data, db_fail, t) ==
    LET f == FailedStatement(data.children, db_fail)
    IN  IF f = 0
        THEN [ committed |-> TRUE,
               tables    |-> Executed(tables, subreddit, post_id, data, Len(data.children) + 3, t) ]
        ELSE [ committed |-> FALSE, tables |-> tables ]

\* schedule_post_recrawls: one delayed crawl-post job per configured delay
schedule_post_recrawls(subreddit, post_id) ==
    LET recrawl_delays == CONFIG.crawl_settings.recrawl_delays
    IN  [ i \in 1 .. Len(recrawl_delays) |->
            Job("crawl-post", <<subreddit, post_id, TRUE, EmptyDict>>, "crawl-post",
                Days(recrawl_delays[i])) ]

\* the fault where a score of zero counts as positive
ShouldScheduleRecrawlsNonNegative(is_recrawl, score) == ~is_recrawl /\ score >= 0

\* `if not is_recrawl and main_post['score'] > 0` (line 221)
ShouldScheduleRecrawls(is_recrawl, score) == ~is_recrawl /\ score > 0

\* the fault where a rescheduled job forgets that it is a recrawl
RescheduleArgsPostInitial(subreddit, post_id, is_recrawl, metadata) ==
    <<subreddit, post_id, FALSE, metadata>>

\* the args handed to reschedule_job on a rate limit (line 166)
RescheduleArgsPost(subreddit, post_id, is_recrawl, metadata) ==
    <<subreddit, post_id, is_recrawl, metadata>>

\* The handler: what it pushes, how it ends and the tables it leaves. The outcome names
\* the log line the run ends with, as in crawl_subreddit; "db_error" is an exception
\* that left the transaction block, logged by an except branch of lines 226-229.
crawl_post(args, resp, db_fail, qok, jitter, tables, t) ==
    LET subreddit  == args[1]
        post_id    == args[2]
        is_recrawl == IF Len(args) >= 3 THEN args[3] ELSE FALSE
        metadata   == MetadataOrEmpty(args, 4)
    IN  CASE resp.kind = "exception" ->
               [ outcome |-> Except("crawl_post", "HTTPError", "client_error"),
                 pushed  |-> << >>, tables |-> tables ]
          [] RaisesRateLimitException(resp) ->
               IF ~qok THEN [ outcome |-> Except("crawl_post", "ConnectionError", "queue_error"),
                              pushed  |-> << >>, tables |-> tables ]
               ELSE LET r == reschedule_job("crawl-post",
                                            RescheduleArgsPost(subreddit, post_id, is_recrawl, metadata),
                                            "crawl-post", jitter, t)
                    IN  [ outcome |-> IF r.ret THEN "rescheduled" ELSE "max_retries",
                          pushed  |-> r.pushed,
                          tables  |-> tables ]
          [] Falsy(resp) ->
               [outcome |-> "failed", pushed |-> << >>, tables |-> tables]
          [] OTHER ->
               LET tx == Transaction(tables, subreddit, post_id, resp.data, db_fail, t)
               IN  IF ~tx.committed
                   THEN [ outcome |-> Except("crawl_post",
                                             RaisedInTransaction(resp.data.children, db_fail),
                                             "db_error"),
                          pushed  |-> << >>, tables |-> tx.tables ]
                   ELSE IF ~ShouldScheduleRecrawls(is_recrawl, resp.data.main_post.score)
                   THEN [outcome |-> "complete", pushed |-> << >>, tables |-> tx.tables]
                   ELSE IF ~qok
                   THEN [ outcome |-> Except("crawl_post", "ConnectionError", "queue_error"),
                          pushed  |-> << >>, tables |-> tx.tables ]
                   ELSE [ outcome |-> "complete",
                          pushed  |-> schedule_post_recrawls(subreddit, post_id),
                          tables  |-> tx.tables ]

----------------------------------------------------------------------------
(* The state machine *)

\* the workers of the consumer (concurrency=consumer_concurrency), none of them inside a
\* database transaction
Workers == 1 .. CONFIG.crawl_settings.consumer_concurrency
Idle == [pc |-> "idle"]
AllIdle == [w \in Workers |-> Idle]

\* what `last` records of one operation
Record(op, args, resp, outcome, pushed, t) ==
    [op |-> op, args |-> args, resp |-> resp, outcome |-> outcome, pushed |-> pushed, t |-> t]

NoResponse == [kind |-> "none", data |-> EmptyList]

Init ==
    /\ queue = EmptyBag
    /\ reddit_posts = EmptyDict
    /\ reddit_comments = EmptyDict
    /\ now = 0
    /\ booted = FALSE
    /\ external = 0
    /\ workers = AllIdle
    /\ last = Record("none", EmptyList, NoResponse, "none", << >>, 0)

\* the fault of a bootstrap that schedules every subreddit twice
InitialJobsTwice ==
    [ i \in 1 .. (2 * Len(CONFIG.subreddits)) |->
        Job("crawl-subreddit",
            <<CONFIG.subreddits[((i - 1) % Len(CONFIG.subreddits)) + 1].name, EmptyList, EmptyDict>>,
            "crawl-subreddit", Immediately) ]

\* the jobs of schedule_initial_crawls, one per configured subreddit, in config order
InitialJobs ==
    [ i \in DOMAIN CONFIG.subreddits |->
        Job("crawl-subreddit", <<CONFIG.subreddits[i].name, EmptyList, EmptyDict>>,
            "crawl-subreddit", Immediately) ]

\* reddit_crawler.py run as a program: schedule_initial_crawls()
schedule_initial_crawls ==
    /\ ~booted
    /\ booted' = TRUE
    /\ queue' = PushAll(queue, InitialJobs)
    /\ last' = Record("schedule_initial_crawls", EmptyList, NoResponse, "complete",
                      InitialJobs, now)
    /\ UNCHANGED <<reddit_posts, reddit_comments, now, external, workers>>

\* the fault of a start script that does not look the name up in the configuration
StartJobsUnchecked(subreddit) ==
    << Job("crawl-subreddit", <<subreddit, EmptyList>>, "crawl-subreddit", Immediately) >>

\* the job start_reddit_crawl.py pushes: args=(subreddit, []); none for an unknown name
StartJobs(subreddit) ==
    IF subreddit \notin ConfiguredNames THEN << >>
    ELSE << Job("crawl-subreddit", <<subreddit, EmptyList>>, "crawl-subreddit", Immediately) >>

\* python start_reddit_crawl.py <subreddit>
start_reddit_crawl ==
    \E subreddit \in SubredditArgs :
        /\ external < MaxExternal
        /\ external' = external + 1
        /\ queue' = PushAll(queue, StartJobs(subreddit))
        /\ last' = Record("start_reddit_crawl", <<subreddit>>, NoResponse,
                          IF subreddit \in ConfiguredNames THEN "complete" ELSE "exit",
                          StartJobs(subreddit), now)
        /\ UNCHANGED <<reddit_posts, reddit_comments, now, booted, workers>>

\* logging-reddit-crawler.py consumes and feeds the same two queues of the same broker.
\* The jobs it pushes carry no metadata argument: next_job (subreddit_name,
\* current_post_ids), a new post (subreddit_name, post_id) and a recrawl
\* (subreddit, post_id, True). A worker of reddit_crawler.py may fetch them.
LoggingNextJob ==
    Job("crawl-subreddit", <<"f1", <<"p1">>>>, "crawl-subreddit",
        Minutes(CONFIG.crawl_settings.crawl_interval))
LoggingPostJob ==
    Job("crawl-post", <<"f1", "p1">>, "crawl-post", Immediately)
LoggingRecrawlJob ==
    Job("crawl-post", <<"f1", "p1", TRUE>>, "crawl-post",
        Days(CONFIG.crawl_settings.recrawl_delays[1]))

logging_crawler_push(jobs) ==
    \E job \in jobs :
        /\ external < MaxExternal
        /\ external' = external + 1
        /\ queue' = PushAll(queue, <<job>>)
        /\ UNCHANGED <<reddit_posts, reddit_comments, now, booted, last, workers>>

\* the set the loop of line 263 iterates over
NewPosts(args, resp) ==
    IF resp.kind = "json" THEN find_new_posts(args[2], post_ids_from_listing(resp.data)) ELSE {}

\* what the client can answer a listing request, and a post request
ListingResponses == { execute_request(http, listing) : http \in HttpOutcomes, listing \in Listings }
PostResponses == { execute_request(http, data) : http \in HttpOutcomes, data \in PostJson }

\* the answers that carry no data, and those that do
NoData(responses) == { resp \in responses : resp.kind # "json" }
WithData(responses) == { resp \in responses : resp.kind = "json" }

\* the jitter is drawn only by a run that reschedules
JittersFor(resp) == IF resp.kind = "rate_limit" THEN Jitters ELSE {100}

\* the broker is connected to only after a rate limit or an answer with data
BrokerOutcomes(resp, broker) == IF resp.kind \in {"rate_limit", "json"} THEN broker ELSE {TRUE}

\* An environment of the workers: the answers the Reddit API may give to a listing and
\* to a post request, whether the broker may be unreachable, and the horizon (the
\* number of handler runs after which the behaviour is cut).
Environment(listings, posts, broker, horizon) ==
    [listings |-> listings, posts |-> posts, broker |-> broker, horizon |-> horizon]

\* a worker fetches a crawl-subreddit job and runs the handler to its end
run_crawl_subreddit(env) ==
    \E job \in BagToSet(queue), resp \in env.listings :
        /\ job.jobtype = "crawl-subreddit"
        /\ now < env.horizon
        /\ \E qok \in BrokerOutcomes(resp, env.broker), jitter \in JittersFor(resp),
              order \in Orders(NewPosts(job.args, resp)) :
             LET r == crawl_subreddit(job.args, resp, qok, jitter, order, now)
             IN  /\ queue' = PushAll(Fetch(queue, job), r.pushed)
                 /\ last' = Record("crawl_subreddit", job.args, resp, r.outcome, r.pushed, now)
        /\ now' = now + 1
        /\ UNCHANGED <<reddit_posts, reddit_comments, booted, external, workers>>

\* What may fail around one crawl_post run: the statement at which the database fails
\* (0: none) and whether the broker can be reached. The broker is connected to after a
\* rate limit, or after the commit, so a run meets at most one of the two.
Faults(resp, broker) ==
    CASE resp.kind = "rate_limit" -> { [db_fail |-> 0, qok |-> q] : q \in broker }
      [] resp.kind = "json" ->
           { [db_fail |-> 0, qok |-> q] : q \in broker }
           \cup { [db_fail |-> k, qok |-> TRUE] : k \in 1 .. (Len(resp.data.children) + 3) }
      [] OTHER -> { [db_fail |-> 0, qok |-> TRUE] }

\* a worker fetches a crawl-post job and runs the handler to its end
run_crawl_post(env) ==
    \E job \in BagToSet(queue), resp \in env.posts :
        /\ job.jobtype = "crawl-post"
        /\ now < env.horizon
        /\ \E fault \in Faults(resp, env.broker), jitter \in JittersFor(resp) :
             LET r == crawl_post(job.args, resp, fault.db_fail, fault.qok, jitter,
                                 Tables(reddit_posts, reddit_comments), now)
             IN  /\ queue' = PushAll(Fetch(queue, job), r.pushed)
                 /\ reddit_posts' = r.tables.posts
                 /\ reddit_comments' = r.tables.comments
                 /\ last' = Record("crawl_post", job.args, resp, r.outcome, r.pushed, now)
        /\ now' = now + 1
        /\ UNCHANGED <<booted, external, workers>>

\* The pipeline in an arbitrary environment: every answer of the API, the broker and
\* the database failing or not.
Arbitrary == Environment(ListingResponses, PostResponses, BOOLEAN, MaxTime)

Next ==
    \/ schedule_initial_crawls
    \/ start_reddit_crawl
    \/ logging_crawler_push({LoggingNextJob, LoggingRecrawlJob})
    \/ run_crawl_subreddit(Arbitrary)
    \/ run_crawl_post(Arbitrary)

Spec == Init /\ [][Next]_vars

\* The workers on externally pushed jobs while the Reddit API answers no request with
\* data (rate limits, 404s, failures), over the longer horizon a whole retry chain needs.
Outage == Environment(NoData(ListingResponses), NoData(PostResponses), BOOLEAN, MaxRetryTime)

NextRetry ==
    \/ start_reddit_crawl
    \/ logging_crawler_push({LoggingNextJob, LoggingPostJob, LoggingRecrawlJob})
    \/ run_crawl_subreddit(Outage)
    \/ run_crawl_post(Outage)

RetrySpec == Init /\ [][NextRetry]_vars

\* The discovery loop on its own: the bootstrap and the workers, nothing pushed from
\* outside, every listing request answered with data, the broker always reachable.
\* The workers are fair: a job that stays in the queue is eventually run.
Healthy == Environment(WithData(ListingResponses), PostResponses, {TRUE}, MaxTime)

NextLoop ==
    \/ schedule_initial_crawls
    \/ run_crawl_subreddit(Healthy)
    \/ run_crawl_post(Healthy)

LoopSpec ==
    /\ Init
    /\ [][NextLoop]_vars
    /\ WF_vars(schedule_initial_crawls)
    /\ WF_vars(run_crawl_subreddit(Healthy))
    /\ WF_vars(run_crawl_post(Healthy))

\* The storage path on its own: crawl_post on the crawl-post jobs found on the queue
\* and on the recrawls and retries they lead to, in an arbitrary environment. A post is
\* crawled several times here, so a run meets the rows an earlier run left.
Storing == Environment({}, PostResponses, BOOLEAN, MaxStoreTime)

NextStore ==
    \/ logging_crawler_push({LoggingPostJob, LoggingRecrawlJob})
    \/ run_crawl_post(Storing)

StoreSpec == Init /\ [][NextStore]_vars

----------------------------------------------------------------------------
(* Properties of the last run, read from `last` *)

\* the jobs of one type among those the last operation pushed, in push order
Pushed(jobtype) == SelectSeq(last.pushed, LAMBDA job : job.jobtype = jobtype)

\* the id set of the listing the last poll fetched, and the ids it was invoked with
ListingIdSet == { last.resp.data.data.children[i].data.id :
                    i \in DOMAIN last.resp.data.data.children }
KnownIdSet == Range(last.args[2])

\* the last operation is a poll that fetched a listing and reached the broker
SuccessfulPoll ==
    /\ last.op = "crawl_subreddit"
    /\ last.resp.kind = "json"
    /\ last.outcome # "queue_error"

\* C1: every poll whose listing fetch succeeds enqueues exactly one delayed
\* crawl-subreddit continuation job for the same feed, whatever the number of new ids.
OneContinuationPerSuccessfulPoll ==
    SuccessfulPoll =>
        /\ Len(Pushed("crawl-subreddit")) = 1
        /\ Pushed("crawl-subreddit")[1].args[1] = last.args[1]
        /\ Pushed("crawl-subreddit")[1].at # Immediately

\* a poll of f1 that found p1 new and ran to its last log line, with no continuation
PollCompleteWithoutContinuation ==
    /\ SuccessfulPoll
    /\ last.outcome = "complete"
    /\ last.args[1] = "f1"
    /\ ListingIdSet = {"p1"}
    /\ Pushed("crawl-subreddit") = << >>

\* C2: a successful poll enqueues exactly one crawl-post job with is_recrawl False for
\* each id of the listing that is not among the known ids, and no other crawl-post job.
OneCrawlPostPerNewId ==
    SuccessfulPoll =>
        LET posts == Pushed("crawl-post")
        IN  /\ Len(posts) = Cardinality(ListingIdSet \ KnownIdSet)
            /\ { posts[i].args[2] : i \in DOMAIN posts } = ListingIdSet \ KnownIdSet
            /\ \A i \in DOMAIN posts : posts[i].args[1] = last.args[1] /\ posts[i].args[3] = FALSE

\* a poll that knew p1 and found p2 new pushed two crawl-post jobs for p2
NewPostQueuedTwice ==
    /\ SuccessfulPoll
    /\ KnownIdSet = {"p1"}
    /\ ListingIdSet = {"p1", "p2"}
    /\ Len(Pushed("crawl-post")) = 2
    /\ \A i \in DOMAIN last.pushed : last.pushed[i].args[2] = "p2"

\* C3: a successful poll enqueues a continuation whose known ids are exactly the ids
\* of the listing just fetched.
ContinuationCarriesFreshSnapshot ==
    SuccessfulPoll =>
        \E i \in DOMAIN last.pushed :
            /\ last.pushed[i].jobtype = "crawl-subreddit"
            /\ last.pushed[i].args[1] = last.args[1]
            /\ last.pushed[i].args[2] = post_ids_from_listing(last.resp.data)

\* a poll whose listing differs from the known ids, after which the queue holds no
\* poll of that feed at all: the fresh snapshot is carried by no job
FreshSnapshotLost ==
    /\ SuccessfulPoll
    /\ ListingIdSet # KnownIdSet
    /\ ListingIdSet # {}
    /\ \A job \in BagToSet(queue) : job.jobtype # "crawl-subreddit"

\* a crawl-subreddit job for the feed is in the queue
PollPending(feed) ==
    \E job \in BagToSet(queue) : job.jobtype = "crawl-subreddit" /\ job.args[1] = feed

\* C4: once the bootstrap has run, with every listing request answered and the broker
\* reachable, each configured feed always has a poll in the queue for the fair workers
\* to run, so it is polled again and again. A worker fetches the poll and pushes its
\* continuation in one run, so a loop that stays alive never leaves a feed without one.
DiscoveryLoopAlive ==
    booted => \A feed \in ConfiguredNames : PollPending(feed)

\* after the first polls the queue holds crawl-post jobs only: no feed is polled again
DiscoveryLoopDead ==
    /\ booted
    /\ last.op = "crawl_subreddit"
    /\ queue # EmptyBag
    /\ \A feed \in ConfiguredNames : ~PollPending(feed)

\* the last operation is a poll that met the rate limit
RateLimitedPoll == last.op = "crawl_subreddit" /\ last.resp.kind = "rate_limit"

\* the retry metadata the last handler run was invoked with (`metadata or {}`)
LastMetadata == MetadataOrEmpty(last.args, IF last.op = "crawl_subreddit" THEN 3 ELSE 4)
LastRetryCount == Get(LastMetadata, "retry_count", 0)

\* C5: a rate-limited poll enqueues no crawl-post job and no continuation: at most one
\* job, a crawl-subreddit job with the same feed and the same known ids it was invoked
\* with, and exactly that one while the retry count is below the cap.
RateLimitedPollKeepsSnapshot ==
    RateLimitedPoll =>
        /\ Len(last.pushed) <= 1
        /\ \A i \in DOMAIN last.pushed :
              /\ last.pushed[i].jobtype = "crawl-subreddit"
              /\ last.pushed[i].args[1] = last.args[1]
              /\ last.pushed[i].args[2] = last.args[2]
              /\ last.pushed[i].at[1] = "seconds"
        /\ (last.outcome # "queue_error" /\ LastRetryCount < MaxRetries
              => Len(last.pushed) = 1)

\* a rate-limited poll invoked with known ids p1 was rescheduled
RateLimitedPollRescheduled ==
    /\ RateLimitedPoll
    /\ last.args[2] = <<"p1">>
    /\ Len(last.pushed) = 1

\* the last operation is a handler run that met the rate limit and reached the broker,
\* so reschedule_job was called
RescheduleCalled ==
    /\ last.op \in {"crawl_subreddit", "crawl_post"}
    /\ last.resp.kind = "rate_limit"
    /\ last.outcome # "queue_error"

\* the job type of the handler that ran last, and its parameters before `metadata`
\* as Python binds them
LastJobtype == IF last.op = "crawl_subreddit" THEN "crawl-subreddit" ELSE "crawl-post"
LastLeadingArgs ==
    IF last.op = "crawl_subreddit" THEN <<last.args[1], last.args[2]>>
    ELSE <<last.args[1], last.args[2], IF Len(last.args) >= 3 THEN last.args[3] ELSE FALSE>>

\* C6: reschedule_job on a job whose retry count is below the cap enqueues exactly one
\* job of the same type and queue with the same leading arguments, whose metadata has
\* the retry count and the length of the retry history each incremented by exactly one,
\* and returns True.
RescheduleBelowMaxRetries ==
    (RescheduleCalled /\ LastRetryCount < MaxRetries) =>
        /\ last.outcome = "rescheduled"
        /\ Len(last.pushed) = 1
        /\ LET job      == last.pushed[1]
               metadata == job.args[Len(job.args)]
           IN  /\ job.jobtype = LastJobtype
               /\ job.queue = LastJobtype
               /\ SubSeq(job.args, 1, Len(job.args) - 1) = LastLeadingArgs
               /\ metadata.retry_count = LastRetryCount + 1
               /\ Len(metadata.previous_retries)
                     = Len(Get(LastMetadata, "previous_retries", EmptyList)) + 1

\* a crawl-post job on its third retry is rescheduled once more
ThirdRetryRescheduled ==
    /\ RescheduleCalled
    /\ last.op = "crawl_post"
    /\ LastRetryCount = 3
    /\ Len(last.pushed) = 1

\* C7: reschedule_job on a job whose retry count has reached the cap returns False and
\* enqueues nothing.
RescheduleAtMaxRetries ==
    (RescheduleCalled /\ LastRetryCount >= MaxRetries) =>
        /\ last.outcome = "max_retries"
        /\ last.pushed = << >>

\* a job that was retried MaxRetries times meets the rate limit again; nothing of its
\* chain is left in the queue
RetryChainDropped ==
    /\ RescheduleCalled
    /\ LastRetryCount = MaxRetries
    /\ queue = EmptyBag

\* the is_recrawl parameter of the last crawl_post run
LastIsRecrawl == IF Len(last.args) >= 3 THEN last.args[3] ELSE FALSE

\* the last operation is an initial crawl that fetched and stored a post and ran to
\* its last log line
InitialCrawlStored ==
    /\ last.op = "crawl_post"
    /\ ~LastIsRecrawl
    /\ last.resp.kind = "json"
    /\ last.outcome = "complete"

\* C8: an initial crawl that stores a post of positive score enqueues exactly
\* len(recrawl_delays) delayed crawl-post jobs for that post, each with is_recrawl True,
\* one per configured delay; with a score of zero or less it enqueues none.
RecrawlsOnlyForPositiveScore ==
    InitialCrawlStored =>
        LET recrawl_delays == CONFIG.crawl_settings.recrawl_delays
        IN  IF last.resp.data.main_post.score > 0
            THEN /\ Len(last.pushed) = Len(recrawl_delays)
                 /\ \A i \in DOMAIN last.pushed :
                       /\ last.pushed[i].jobtype = "crawl-post"
                       /\ SubSeq(last.pushed[i].args, 1, 3) = <<last.args[1], last.args[2], TRUE>>
                       /\ last.pushed[i].at = Days(recrawl_delays[i])
            ELSE last.pushed = << >>

\* an initial crawl stored a post of positive score and scheduled its recrawls
RecrawlsScheduled ==
    /\ InitialCrawlStored
    /\ last.resp.data.main_post.score > 0
    /\ last.args[2] \in DOMAIN reddit_posts
    /\ Len(last.pushed) = Len(CONFIG.crawl_settings.recrawl_delays)

\* the last operation is a crawl_post run with is_recrawl True
RecrawlRun == last.op = "crawl_post" /\ LastIsRecrawl

\* C9: a recrawl never enqueues recrawl jobs, whatever the score: it enqueues nothing
\* unless it met the rate limit, and then only its own retry, again with is_recrawl True.
RecrawlOneGenerationDeep ==
    RecrawlRun =>
        /\ (last.resp.kind # "rate_limit" => last.pushed = << >>)
        /\ Len(last.pushed) <= 1
        /\ \A i \in DOMAIN last.pushed :
              /\ last.pushed[i].jobtype = "crawl-post"
              /\ SubSeq(last.pushed[i].args, 1, 3) = <<last.args[1], last.args[2], TRUE>>
              /\ last.pushed[i].args[4].retry_count = LastRetryCount + 1

\* a recrawl that had been rescheduled after a rate limit stored a post of positive
\* score and enqueued nothing
RetriedRecrawlStored ==
    /\ RecrawlRun
    /\ LastRetryCount > 0
    /\ last.outcome = "complete"
    /\ last.resp.data.main_post.score > 0
    /\ last.pushed = << >>

\* the post and every comment of the response the last crawl_post run fetched are in
\* the tables as that run wrote them
ResponseWritten ==
    /\ last.resp.kind = "json"
    /\ last.args[2] \in DOMAIN reddit_posts
    /\ reddit_posts[last.args[2]].score = last.resp.data.main_post.score
    /\ reddit_posts[last.args[2]].crawled_at = last.t
    /\ \A i \in DOMAIN last.resp.data.children :
          LET comment_data == last.resp.data.children[i]
          IN  /\ ~RaisesKeyError(comment_data)
              /\ comment_data.id \in DOMAIN reddit_comments
              /\ reddit_comments[comment_data.id].score = comment_data.score
              /\ reddit_comments[comment_data.id].crawled_at = last.t

\* C10: a crawl_post run leaves either the post and every comment of its response
\* written, or the two tables exactly as they were before the run.
CrawlPostAllOrNothing ==
    [][ last'.op = "crawl_post" =>
          \/ reddit_posts' = reddit_posts /\ reddit_comments' = reddit_comments
          \/ ResponseWritten' ]_vars

\* a recrawl whose second comment cannot be inserted, after the post's INSERT and the
\* first comment's were executed with a new score, leaves the rows of the earlier crawl
FailedPartwayRowsKept ==
    /\ last.op = "crawl_post"
    /\ last.outcome = "db_error"
    /\ Len(last.resp.data.children) = 2
    /\ last.args[2] \in DOMAIN reddit_posts
    /\ reddit_posts[last.args[2]].crawled_at < last.t
    /\ reddit_posts[last.args[2]].score # last.resp.data.main_post.score
    /\ "c1" \in DOMAIN reddit_comments
    /\ reddit_comments["c1"].score = 0

\* the last operation is a crawl_post run whose transaction committed
CrawlPostCommitted ==
    /\ last.op = "crawl_post"
    /\ last.resp.kind = "json"
    /\ last.outcome \in {"complete", "queue_error"}

\* C11: upserts are keyed by post_id and comment_id. A crawl_post run that commits
\* creates no record but those of its own post and comments and leaves every other
\* record as it was; the post's one record then holds the score of this run and this
\* run's timestamp, later than the timestamp it held before.
UpsertKeyedById ==
    [][ (now' = now + 1 /\ CrawlPostCommitted') =>
          LET post_id  == last'.args[2]
              children == last'.resp.data.children
              ids      == { children[i].id : i \in DOMAIN children }
          IN  /\ DOMAIN reddit_posts' = DOMAIN reddit_posts \cup {post_id}
              /\ \A p \in DOMAIN reddit_posts \ {post_id} : reddit_posts'[p] = reddit_posts[p]
              /\ reddit_posts'[post_id].score = last'.resp.data.main_post.score
              /\ reddit_posts'[post_id].crawled_at = last'.t
              /\ post_id \in DOMAIN reddit_posts =>
                    reddit_posts'[post_id].crawled_at > reddit_posts[post_id].crawled_at
              /\ DOMAIN reddit_comments' = DOMAIN reddit_comments \cup ids
              /\ \A c \in DOMAIN reddit_comments \ ids : reddit_comments'[c] = reddit_comments[c]
              /\ \A i \in DOMAIN children :
                    /\ reddit_comments'[children[i].id].score = children[i].score
                    /\ reddit_comments'[children[i].id].crawled_at = last'.t ]_vars

\* a recrawl that schedule_post_recrawls pushed (so the post was stored before, with a
\* positive score) stored a negative score: one record, with the second score
SecondUpsertReplacesScore ==
    /\ CrawlPostCommitted
    /\ last.args = <<"f1", "p1", TRUE, EmptyDict>>
    /\ last.resp.data.main_post.score < 0
    /\ DOMAIN reddit_posts = {"p1"}
    /\ reddit_posts["p1"].score < 0
    /\ reddit_posts["p1"].crawled_at = last.t
    /\ last.t > 0

----------------------------------------------------------------------------
(* calculate_backoff as a function of its inputs *)

\* the inputs: every retry count a job can carry, base delays around the default (the
\* default itself, and small ones whose product with 0.75 is not a whole number), and
\* the jitter random.uniform(0.75, 1.25) draws, in whole percents
RetryCounts == 0 .. MaxRetries
BaseDelays == {1, 2, 7, BaseDelay}
JitterPercents == 75 .. 125

InitBackoff ==
    /\ queue = EmptyBag
    /\ reddit_posts = EmptyDict
    /\ reddit_comments = EmptyDict
    /\ now = 0
    /\ booted = FALSE
    /\ external = 0
    /\ workers = AllIdle
    /\ \E retry_count \in RetryCounts, base_delay \in BaseDelays, jitter \in JitterPercents :
          last = Record("input", <<retry_count, base_delay, jitter>>, NoResponse, 0, << >>, 0)

\* one call of calculate_backoff; the outcome recorded is the delay it returns
run_calculate_backoff ==
    /\ last.op = "input"
    /\ last' = [ last EXCEPT !.op = "calculate_backoff",
                             !.outcome = calculate_backoff(last.args[1], last.args[2], last.args[3]) ]
    /\ UNCHANGED <<queue, reddit_posts, reddit_comments, now, booted, external, workers>>

BackoffSpec == InitBackoff /\ [][run_calculate_backoff]_vars

\* base_delay * 2**retry_count of the last call
LastDelay == last.args[2] * Pow2(last.args[1])

\* C12: for every retry count and positive base delay the delay calculate_backoff
\* returns lies within [base * 2^retry_count * 0.75, base * 2^retry_count * 1.25].
BackoffWithinJitterInterval ==
    last.op = "calculate_backoff" =>
        /\ 100 * last.outcome >= 75 * LastDelay
        /\ 100 * last.outcome <= 125 * LastDelay

\* C12, as the truncation allows: the delay lies within
\* [floor(base * 2^retry_count * 0.75), base * 2^retry_count * 1.25], and is no less than
\* base * 2^retry_count * 0.75 itself whenever that is a whole number, as it is for the
\* default base of 60.
BackoffWithinTruncatedInterval ==
    last.op = "calculate_backoff" =>
        /\ last.outcome >= (75 * LastDelay) \div 100
        /\ 100 * last.outcome <= 125 * LastDelay
        /\ ((75 * LastDelay) % 100 = 0 => 100 * last.outcome >= 75 * LastDelay)

\* base 1, retry count 0, jitter 0.80: int(0.8) is a delay of 0 seconds, below 0.75
BackoffTruncatedBelowInterval ==
    /\ last.op = "calculate_backoff"
    /\ last.args = <<0, 1, 80>>
    /\ last.outcome = 0

\* C13: no failure propagates out of a handler: whatever the Reddit API answers and
\* whether or not the database and the broker fail, crawl_subreddit and crawl_post
\* return normally.
HandlersNeverRaise ==
    last.op \in {"crawl_subreddit", "crawl_post"} => last.outcome # "raised"

\* a crawl_post run whose comment loop raised KeyError on a stub returned normally
KeyErrorCaught ==
    /\ last.op = "crawl_post"
    /\ last.outcome = "db_error"
    /\ \E i \in DOMAIN last.resp.data.children : RaisesKeyError(last.resp.data.children[i])

\* the last operation is a handler run whose request failed without a rate limit: the
\* client returned None (404, another HTTP error, no connection) or the token request
\* raised
FetchFailed ==
    /\ last.op \in {"crawl_subreddit", "crawl_post"}
    /\ last.resp.kind \in {"none", "exception"}

\* C14: a handler run whose request fails without a rate limit enqueues no job of any
\* kind and writes nothing to the tables: the queue afterwards is the queue before
\* without the job that was run, so a poll that fails leaves no poll in its place.
FailedFetchHasNoEffect ==
    [][ (now' = now + 1 /\ FetchFailed') =>
          /\ last'.pushed = << >>
          /\ reddit_posts' = reddit_posts /\ reddit_comments' = reddit_comments
          /\ \E job \in BagToSet(queue) :
                /\ job.jobtype = LastJobtype' /\ job.args = last'.args
                /\ queue' = Fetch(queue, job) ]_vars

\* the poll of a configured feed failed and the feed has no poll pending
FailedPollEndsLoop ==
    /\ FetchFailed
    /\ last.op = "crawl_subreddit"
    /\ last.resp.kind = "none"
    /\ last.outcome = "failed"
    /\ booted
    /\ ~PollPending(last.args[1])

----------------------------------------------------------------------------
(* An outage that begins after a post was stored *)

\* the first crawl of p1: the job ("f1", "p1") run at time 0 with an answer of positive
\* score and one comment, the database and the broker in order
FirstCrawlResponse == execute_request("200", PostData(1, <<Comment("c1", 0)>>))
FirstCrawl ==
    crawl_post(LoggingPostJob.args, FirstCrawlResponse, 0, TRUE, 100,
               Tables(EmptyDict, EmptyDict), 0)

\* the state that crawl leaves: the post and its comment stored, its recrawls queued
InitAfterCrawl ==
    /\ queue = PushAll(EmptyBag, FirstCrawl.pushed)
    /\ reddit_posts = FirstCrawl.tables.posts
    /\ reddit_comments = FirstCrawl.tables.comments
    /\ now = 1
    /\ booted = FALSE
    /\ external = 0
    /\ workers = AllIdle
    /\ last = Record("crawl_post", LoggingPostJob.args, FirstCrawlResponse,
                     FirstCrawl.outcome, FirstCrawl.pushed, 0)

\* from then on no post request is answered with data
OutageAfterCrawl ==
    Environment({}, NoData(PostResponses), BOOLEAN, MaxRetryTime + 1)

NextAfterCrawl ==
    \/ logging_crawler_push({LoggingPostJob})
    \/ run_crawl_post(OutageAfterCrawl)

AfterCrawlSpec == InitAfterCrawl /\ [][NextAfterCrawl]_vars

\* the last operation is a crawl_post run that met the rate limit
RateLimitedCrawlPost == last.op = "crawl_post" /\ last.resp.kind = "rate_limit"

\* C15: a rate-limited crawl_post run leaves both tables unchanged and schedules no
\* recrawls; below the retry cap it enqueues exactly one crawl-post job with the same
\* subreddit, post id and is_recrawl and a retry count one higher (1 on the first
\* attempt), and at the cap it enqueues nothing.
RateLimitedCrawlPostFrame ==
    [][ (now' = now + 1 /\ RateLimitedCrawlPost') =>
          /\ reddit_posts' = reddit_posts /\ reddit_comments' = reddit_comments
          /\ last'.outcome # "queue_error" =>
                IF LastRetryCount' < MaxRetries
                THEN /\ Len(last'.pushed) = 1
                     /\ last'.pushed[1].jobtype = "crawl-post"
                     /\ Len(last'.pushed[1].args) = 4
                     /\ SubSeq(last'.pushed[1].args, 1, 3)
                           = <<last'.args[1], last'.args[2], LastIsRecrawl'>>
                     /\ last'.pushed[1].args[4].retry_count = LastRetryCount' + 1
                     /\ (Len(last'.args) < 4 => last'.pushed[1].args[4].retry_count = 1)
                ELSE last'.pushed = << >> ]_vars

\* the recrawl of a stored post met the rate limit for the last time: nothing is pushed
\* and the rows of the first crawl are as that crawl left them
RecrawlDroppedStoreIntact ==
    /\ RateLimitedCrawlPost
    /\ LastIsRecrawl
    /\ LastRetryCount = MaxRetries
    /\ last.pushed = << >>
    /\ reddit_posts = FirstCrawl.tables.posts
    /\ reddit_comments = FirstCrawl.tables.comments
    /\ reddit_posts # EmptyDict

\* C16: the bootstrap enqueues exactly one initial crawl-subreddit job per configured
\* subreddit, each with an empty list of known ids, and none for any other name; the
\* start script enqueues one such job when the name it is given is configured and
\* nothing otherwise.
InitialPollsOnlyForConfigured ==
    /\ last.op = "schedule_initial_crawls" =>
          /\ Len(last.pushed) = Len(CONFIG.subreddits)
          /\ \A name \in ConfiguredNames :
                Cardinality({ i \in DOMAIN last.pushed : last.pushed[i].args[1] = name }) = 1
          /\ \A i \in DOMAIN last.pushed :
                /\ last.pushed[i].jobtype = "crawl-subreddit"
                /\ last.pushed[i].queue = "crawl-subreddit"
                /\ last.pushed[i].args[1] \in ConfiguredNames
                /\ last.pushed[i].args[2] = EmptyList
    /\ last.op = "start_reddit_crawl" =>
          IF last.args[1] \in ConfiguredNames
          THEN /\ Len(last.pushed) = 1
               /\ last.pushed[1].jobtype = "crawl-subreddit"
               /\ last.pushed[1].queue = "crawl-subreddit"
               /\ last.pushed[1].args[1] = last.args[1]
               /\ last.pushed[1].args[2] = EmptyList
          ELSE last.pushed = << >>

\* the start script was given a name that is not configured, after the bootstrap: the
\* queue holds the bootstrap's polls of f1 and f2 and nothing else
UnconfiguredStartRejected ==
    /\ last.op = "start_reddit_crawl"
    /\ last.args[1] \notin ConfiguredNames
    /\ last.outcome = "exit"
    /\ booted
    /\ queue = PushAll(EmptyBag, InitialJobs)
    /\ BagCardinality(queue) = 2

----------------------------------------------------------------------------
(* find_new_posts as a function of its inputs *)

\* the lists of post ids of length up to MaxListLen, repeated ids included
IdLists == UNION { [1 .. n -> {"p1", "p2", "p3"}] : n \in 0 .. MaxListLen }

InitDiff ==
    /\ queue = EmptyBag
    /\ reddit_posts = EmptyDict
    /\ reddit_comments = EmptyDict
    /\ now = 0
    /\ booted = FALSE
    /\ external = 0
    /\ workers = AllIdle
    /\ \E previous_post_ids \in IdLists, current_post_ids \in IdLists :
          last = Record("input", <<previous_post_ids, current_post_ids>>, NoResponse, {}, << >>, 0)

\* one call of find_new_posts; the outcome recorded is the set it returns
run_find_new_posts ==
    /\ last.op = "input"
    /\ last' = [ last EXCEPT !.op = "find_new_posts",
                             !.outcome = find_new_posts(last.args[1], last.args[2]) ]
    /\ UNCHANGED <<queue, reddit_posts, reddit_comments, now, booted, external, workers>>

DiffSpec == InitDiff /\ [][run_find_new_posts]_vars

\* the id occurs in the list
Occurs(id, ids) == \E i \in DOMAIN ids : ids[i] = id

\* C17: find_new_posts(known, current) is the set difference current minus known, for
\* lists with repeated ids too: an id is in the result exactly when it occurs in current
\* and not in known; the result is empty when the two lists are the same, and holds
\* every id of current when known is empty.
FindNewPostsIsDifference ==
    last.op = "find_new_posts" =>
        /\ \A id \in {"p1", "p2", "p3"} :
              id \in last.outcome <=> (Occurs(id, last.args[2]) /\ ~Occurs(id, last.args[1]))
        /\ (last.args[1] = last.args[2] => last.outcome = {})
        /\ (last.args[1] = EmptyList =>
              /\ \A i \in DOMAIN last.args[2] : last.args[2][i] \in last.outcome
              /\ Cardinality(last.outcome) <= Len(last.args[2]))

\* known [p1, p3], current [p2, p2]: the one new id p2, once, and the id p3 that left
\* the listing is not reported
RepeatedNewIdReportedOnce ==
    /\ last.op = "find_new_posts"
    /\ last.args = << <<"p1", "p3">>, <<"p2", "p2">> >>
    /\ last.outcome = {"p2"}

\* the position of the metadata parameter of the handler a job is for: third of
\* crawl_subreddit, fourth of crawl_post
MetadataPosition(job) == IF job.jobtype = "crawl-subreddit" THEN 3 ELSE 4

\* the job's last positional argument is the handler's metadata, a dict that is empty
\* or holds the retry keys
CarriesMetadata(job) ==
    /\ Len(job.args) = MetadataPosition(job)
    /\ DOMAIN job.args[Len(job.args)] \in {{}, {"retry_count", "previous_retries"}}

\* C18: every job the pipeline enqueues - by the bootstrap, the start script, a poll,
\* a crawl or a reschedule - carries a retry metadata dict as its last positional
\* argument.
EveryJobCarriesMetadata ==
    last.op \in {"schedule_initial_crawls", "start_reddit_crawl", "crawl_subreddit", "crawl_post"}
        => \A i \in DOMAIN last.pushed : CarriesMetadata(last.pushed[i])

\* the start script's job for f1 has two arguments, the last of them the list of known ids
StartJobWithoutMetadata ==
    /\ last.op = "start_reddit_crawl"
    /\ Len(last.pushed) = 1
    /\ last.pushed[1].args = <<"f1", EmptyList>>
    /\ last.pushed[1] \in DOMAIN queue

\* the metadata a pushed job carries
MetadataOf(job) == job.args[MetadataPosition(job)]

\* C19: retry state does not outlive the job chain. Every job pushed by a handler run
\* whose request returned data carries empty metadata, also when that run was itself a
\* retry; a job with non-empty metadata is pushed by a rate-limited run only.
FollowUpsCarryEmptyMetadata ==
    last.op \in {"crawl_subreddit", "crawl_post"} =>
        \A i \in DOMAIN last.pushed :
            /\ Len(last.pushed[i].args) = MetadataPosition(last.pushed[i])
            /\ last.resp.kind = "json" => MetadataOf(last.pushed[i]) = EmptyDict
            /\ MetadataOf(last.pushed[i]) # EmptyDict => last.resp.kind = "rate_limit"

\* a poll that had been rescheduled after a rate limit fetched its listing and pushed
\* the jobs of the new posts, with empty metadata
RetriedPollPushedFreshJobs ==
    /\ last.op = "crawl_subreddit"
    /\ LastRetryCount > 0
    /\ last.resp.kind = "json"
    /\ last.pushed # << >>
    /\ \A i \in DOMAIN last.pushed : MetadataOf(last.pushed[i]) = EmptyDict

\* the interval of a subreddit: its own crawl_interval when its configuration has
\* one, the crawl_interval of crawl_settings otherwise
IntervalOf(subreddit_name) ==
    Get(get_subreddit_config(subreddit_name), "crawl_interval",
        CONFIG.crawl_settings.crawl_interval)

\* the continuation a successful poll builds at lines 270-278
LastNextJob == NextJob(last.args[1], post_ids_from_listing(last.resp.data))

\* C20: the continuation of a poll is scheduled crawl_interval minutes ahead, where
\* crawl_interval is the subreddit's own when it has one and the global one otherwise.
ContinuationUsesFeedInterval ==
    SuccessfulPoll => LastNextJob.at = Minutes(IntervalOf(last.args[1]))

\* a poll of f1, configured with an interval of its own, built its continuation with the
\* global interval
FeedIntervalIgnored ==
    /\ SuccessfulPoll
    /\ last.args[1] = "f1"
    /\ IntervalOf("f1") # CONFIG.crawl_settings.crawl_interval
    /\ LastNextJob.at = Minutes(CONFIG.crawl_settings.crawl_interval)
    /\ LastNextJob.at = NextJob("f2", EmptyList).at

----------------------------------------------------------------------------
(* Workers running crawl_post concurrently *)

\* The consumer runs its handlers on consumer_concurrency workers, each crawl_post with a
\* database connection and transaction of its own (line 176). Here a crawl_post run is
\* taken apart into the steps at which another worker's run can come in between: the
\* request and the opening of the transaction, each INSERT, and the commit with the
\* rest of the handler. The statements are numbered as in FailedStatement.

\* the rows a transaction sees and those a commit leaves: the committed rows, with the
\* transaction's own written rows over them
Merge(committed, written) ==
    [ k \in DOMAIN committed \cup DOMAIN written |->
        IF k \in DOMAIN written THEN written[k] ELSE committed[k] ]

\* the fault of a connection in autocommit mode: the row is committed by the statement
\* itself, the transaction holds nothing
WriteAutocommit(committed, written, key, row) ==
    [committed |-> Merge(committed, (key :> row)), written |-> written]

\* a row written inside an open transaction joins the transaction's own rows; the
\* committed table stays as it is until the commit
Write(committed, written, key, row) ==
    [committed |-> committed, written |-> Merge(written, (key :> row))]

\* INSERT ... ON CONFLICT waits while another open transaction holds an uncommitted row
\* of the same key
PostLockedByOther(w, post_id) ==
    \E v \in Workers \ {w} : workers[v].pc = "transaction" /\ post_id \in DOMAIN workers[v].posts
CommentLockedByOther(w, comment_id) ==
    \E v \in Workers \ {w} : workers[v].pc = "transaction" /\ comment_id \in DOMAIN workers[v].comments

\* lines 150-177: a worker fetches a crawl-post job, gets the post's JSON and opens its
\* transaction; NOW() is the time the transaction began
begin_transaction(w, env) ==
    \E job \in BagToSet(queue), resp \in WithData(env.posts) :
        /\ job.jobtype = "crawl-post"
        /\ workers[w] = Idle
        /\ now < env.horizon
        /\ queue' = Fetch(queue, job)
        /\ workers' = [ workers EXCEPT ![w] =
                          [ pc |-> "transaction", job |-> job, resp |-> resp, t |-> now,
                            statement |-> 2, posts |-> EmptyDict, comments |-> EmptyDict ] ]
        /\ now' = now + 1
        /\ UNCHANGED <<reddit_posts, reddit_comments, booted, external, last>>

\* lines 181-214: the next INSERT of the worker's transaction, the post's or a comment's
execute_statement(w) ==
    /\ workers[w].pc = "transaction"
    /\ LET tx       == workers[w]
           post_id  == tx.job.args[2]
           children == tx.resp.data.children
           k        == tx.statement - 2
       IN  /\ k <= Len(children)
           /\ IF k = 0
              THEN /\ ~PostLockedByOther(w, post_id)
                   /\ LET row == UpsertPost(Merge(reddit_posts, tx.posts), tx.job.args[1], post_id,
                                            tx.resp.data.main_post, tx.t)[post_id]
                          r   == Write(reddit_posts, tx.posts, post_id, row)
                      IN  /\ reddit_posts' = r.committed
                          /\ workers' = [ workers EXCEPT ![w].posts = r.written,
                                                         ![w].statement = @ + 1 ]
                   /\ UNCHANGED reddit_comments
              ELSE /\ ~RaisesKeyError(children[k])
                   /\ ~CommentLockedByOther(w, children[k].id)
                   /\ LET row == UpsertComment(Merge(reddit_comments, tx.comments), post_id,
                                               children[k], tx.t)[children[k].id]
                          r   == Write(reddit_comments, tx.comments, children[k].id, row)
                      IN  /\ reddit_comments' = r.committed
                          /\ workers' = [ workers EXCEPT ![w].comments = r.written,
                                                         ![w].statement = @ + 1 ]
                   /\ UNCHANGED reddit_posts
    /\ UNCHANGED <<queue, now, booted, external, last>>

\* lines 216-224: conn.commit() makes the transaction's rows the committed ones; the
\* handler then schedules the recrawls and returns
commit_transaction(w, env) ==
    /\ workers[w].pc = "transaction"
    /\ LET tx         == workers[w]
           args       == tx.job.args
           is_recrawl == IF Len(args) >= 3 THEN args[3] ELSE FALSE
           should     == ShouldScheduleRecrawls(is_recrawl, tx.resp.data.main_post.score)
       IN  /\ tx.statement = Len(tx.resp.data.children) + 3
           /\ reddit_posts' = Merge(reddit_posts, tx.posts)
           /\ reddit_comments' = Merge(reddit_comments, tx.comments)
           /\ \E qok \in (IF should THEN env.broker ELSE {TRUE}) :
                LET pushed == IF should /\ qok THEN schedule_post_recrawls(args[1], args[2])
                                               ELSE << >>
                    outcome == IF should /\ ~qok
                               THEN Except("crawl_post", "ConnectionError", "queue_error")
                               ELSE "complete"
                IN  /\ queue' = PushAll(queue, pushed)
                    /\ last' = Record("crawl_post", args, tx.resp, outcome, pushed, tx.t)
    /\ workers' = [workers EXCEPT ![w] = Idle]
    /\ UNCHANGED <<now, booted, external>>

\* lines 226-229: the transaction ends in an exception - the KeyError of a comment stub,
\* or a database error at the statement it is about to run - and is rolled back
rollback_transaction(w) ==
    /\ workers[w].pc = "transaction"
    /\ LET tx       == workers[w]
           children == tx.resp.data.children
           k        == tx.statement - 2
           class    == IF k \in DOMAIN children /\ RaisesKeyError(children[k])
                       THEN "KeyError" ELSE "psycopg2.Error"
       IN  last' = Record("crawl_post", tx.job.args, tx.resp,
                          Except("crawl_post", class, "db_error"), << >>, tx.t)
    /\ workers' = [workers EXCEPT ![w] = Idle]
    /\ UNCHANGED <<queue, reddit_posts, reddit_comments, now, booted, external>>

\* The first poll of f1 after the bootstrap, answered with a listing of one new post. It
\* leaves two crawl-post jobs of that post in the queue (line 279 pushes the post's job a
\* second time), so two workers can crawl the same post at the same time.
FirstPollResponse == execute_request("200", ListingOf(<<"p1">>))
FirstPoll == crawl_subreddit(InitialJobs[1].args, FirstPollResponse, TRUE, 100, <<"p1">>, 0)

InitAfterPoll ==
    /\ queue = PushAll(Fetch(PushAll(EmptyBag, InitialJobs), InitialJobs[1]), FirstPoll.pushed)
    /\ reddit_posts = EmptyDict
    /\ reddit_comments = EmptyDict
    /\ now = 1
    /\ booted = TRUE
    /\ external = 0
    /\ workers = AllIdle
    /\ last = Record("crawl_subreddit", InitialJobs[1].args, FirstPollResponse,
                     FirstPoll.outcome, FirstPoll.pushed, 0)

\* from then on the crawl_post runs of the workers, interleaved, every post request
\* answered with data
Concurrent == Environment({}, PostResponses, BOOLEAN, MaxStoreTime)

NextConcurrent ==
    \E w \in Workers :
        \/ begin_transaction(w, Concurrent)
        \/ execute_statement(w)
        \/ commit_transaction(w, Concurrent)
        \/ rollback_transaction(w)

ConcurrentSpec == InitAfterPoll /\ [][NextConcurrent]_vars

\* C21: under any interleaving of crawl_post runs of the same post, each table holds one
\* record per post_id and comment_id, and the tables change only when a transaction
\* commits: the post's record and the records of its comments then hold the values of
\* the committing run's response and its timestamp in every updated column, and every
\* other record is as it was - the last commit wins, and no record mixes two fetches.
LastCommitWins ==
    [][ (reddit_posts' # reddit_posts \/ reddit_comments' # reddit_comments) =>
          LET post_id  == last'.args[2]
              children == last'.resp.data.children
              ids      == { children[i].id : i \in DOMAIN children }
          IN  /\ last' # last
              /\ CrawlPostCommitted'
              /\ ResponseWritten'
              /\ reddit_posts'[post_id].last_updated = last'.t
              /\ DOMAIN reddit_posts' = DOMAIN reddit_posts \cup {post_id}
              /\ \A p \in DOMAIN reddit_posts \ {post_id} : reddit_posts'[p] = reddit_posts[p]
              /\ DOMAIN reddit_comments' = DOMAIN reddit_comments \cup ids
              /\ \A c \in DOMAIN reddit_comments \ ids : reddit_comments'[c] = reddit_comments[c]
              /\ \A c \in ids : reddit_comments'[c].last_updated = last'.t ]_vars

\* two runs of the same post overlapped: the one whose transaction began second wrote the
\* post and a comment and committed first, the one that began first committed last, and
\* the post's record is the one of the run that committed last
EarlierTransactionCommittedLast ==
    /\ CrawlPostCommitted
    /\ last.t = 1
    /\ last.resp.data.children = << >>
    /\ ResponseWritten
    /\ "c1" \in DOMAIN reddit_comments
    /\ reddit_comments["c1"].crawled_at = 2
    /\ reddit_comments["c1"].post_id = last.args[2]

----------------------------------------------------------------------------
(* Retry chains *)

\* the answers that are a rate limit
RateLimits(responses) == { resp \in responses : resp.kind = "rate_limit" }

\* The Reddit API rate-limits every request. The horizon is one run more than the longest
\* chain: the first run of a job and its MaxRetries retries.
RateLimited ==
    Environment(RateLimits(ListingResponses), RateLimits(PostResponses), BOOLEAN, MaxRetryTime + 1)

\* the jobs with empty metadata a chain starts from: a poll of the bootstrap, a new
\* post's job of a poll, a recrawl of a crawl
ChainStarts ==
    { InitialJobs[i] : i \in DOMAIN InitialJobs }
    \cup { FirstPoll.pushed[1], schedule_post_recrawls("f1", "p1")[1] }

\* one of them is the only job left in the queue
InitChain ==
    /\ queue \in { PushAll(EmptyBag, <<job>>) : job \in ChainStarts }
    /\ reddit_posts = EmptyDict
    /\ reddit_comments = EmptyDict
    /\ now = 0
    /\ booted = TRUE
    /\ external = 0
    /\ workers = AllIdle
    /\ last = Record("none", EmptyList, NoResponse, "none", << >>, 0)

\* the workers run the chain; a poll or a post job without metadata, which the handler's
\* `metadata or {}` takes for empty, may be found on the queue and start another
NextChain ==
    \/ logging_crawler_push({LoggingNextJob, LoggingPostJob})
    \/ run_crawl_subreddit(RateLimited)
    \/ run_crawl_post(RateLimited)

ChainSpec == InitChain /\ [][NextChain]_vars

\* the metadata the handler of a job gets: the job's metadata argument, or {} without one
JobMetadata(job) == MetadataOrEmpty(job.args, MetadataPosition(job))

\* the chains started so far: the first and one per job found on the queue
ChainsStarted == 1 + external

\* C22: retry chains terminate. While every request is rate-limited, no job with a retry
\* count above MaxRetries is ever in the queue; a rate-limited run pushes at most one
\* job, with a retry count one above its own, and none at retry count MaxRetries; and
\* the handlers run at most MaxRetries + 1 times per chain.
RetryChainsTerminate ==
    /\ \A job \in BagToSet(queue) : Get(JobMetadata(job), "retry_count", 0) <= MaxRetries
    /\ now <= ChainsStarted * (MaxRetries + 1)
    /\ last.op \in {"crawl_subreddit", "crawl_post"} =>
          /\ LastRetryCount <= MaxRetries
          /\ Len(last.pushed) <= 1
          /\ \A i \in DOMAIN last.pushed :
                Get(JobMetadata(last.pushed[i]), "retry_count", 0) = LastRetryCount + 1
          /\ LastRetryCount = MaxRetries => last.pushed = << >>

\* a single chain ran to its end before the horizon: the job was run MaxRetries + 1
\* times, the last run dropped it, and nothing is left to run
SingleChainRanOut ==
    /\ external = 0
    /\ now = MaxRetries + 1
    /\ now < RateLimited.horizon
    /\ RescheduleCalled
    /\ last.outcome = "max_retries"
    /\ queue = EmptyBag

\* the retry history a job's handler gets
PreviousRetries(job) == Get(JobMetadata(job), "previous_retries", EmptyList)

\* C23: in every job in the queue the length of previous_retries equals retry_count, and
\* the previous_retries of a rescheduled job is the list of the job it retries with
\* exactly one timestamp appended, the earlier entries unchanged.
RetryHistoryAppendOnly ==
    /\ \A job \in BagToSet(queue) :
          Len(PreviousRetries(job)) = Get(JobMetadata(job), "retry_count", 0)
    /\ RescheduleCalled =>
          \A i \in DOMAIN last.pushed :
              LET before == Get(LastMetadata, "previous_retries", EmptyList)
                  after  == PreviousRetries(last.pushed[i])
              IN  /\ Len(after) = Len(before) + 1
                  /\ SubSeq(after, 1, Len(before)) = before
                  /\ after[Len(after)] = last.t
                  /\ Len(after) = Get(JobMetadata(last.pushed[i]), "retry_count", 0)

\* a job was rescheduled a third time, between runs of another chain: its history holds
\* the times of its three rate-limited runs, in order
ThreeRetriesInOrder ==
    /\ RescheduleCalled
    /\ Len(last.pushed) = 1
    /\ Len(PreviousRetries(last.pushed[1])) = 3
    /\ PreviousRetries(last.pushed[1])[1] < PreviousRetries(last.pushed[1])[2]
    /\ PreviousRetries(last.pushed[1])[2] + 1 < PreviousRetries(last.pushed[1])[3]
    /\ last.pushed[1] \in DOMAIN queue

----------------------------------------------------------------------------
(* Recrawls and the store *)

\* The crawl_post runs on the jobs the first poll left and on the recrawls and retries
\* they lead to, in an arbitrary environment; no job comes from outside.
NextPersist == run_crawl_post(Storing)

PersistSpec == InitAfterPoll /\ [][NextPersist]_vars

\* the crawl-post jobs in the queue with is_recrawl True
QueuedRecrawls ==
    { job \in BagToSet(queue) : job.jobtype = "crawl-post" /\ Len(job.args) >= 3 /\ job.args[3] }

\* C24: recrawls are scheduled only after the post was committed. Whenever a crawl-post
\* job with is_recrawl True is in the queue, a record of its post is in reddit_posts; and
\* a crawl_post run whose transaction fails pushes no job at all, neither a recrawl nor
\* a retry.
RecrawlsOnlyAfterCommit ==
    /\ \A job \in QueuedRecrawls : job.args[2] \in DOMAIN reddit_posts
    /\ (last.op = "crawl_post" /\ last.outcome = "db_error") => last.pushed = << >>

\* the first crawl of the post stored it and scheduled the recrawls; the second crawl of
\* the same post, with a positive score too, failed in the database and pushed nothing
FailedWriteScheduledNothing ==
    /\ last.op = "crawl_post"
    /\ last.outcome = "db_error"
    /\ ~LastIsRecrawl
    /\ last.resp.data.main_post.score > 0
    /\ last.pushed = << >>
    /\ QueuedRecrawls # {}
    /\ \A job \in QueuedRecrawls : job.args[2] = last.args[2]

----------------------------------------------------------------------------
(* One poll per feed *)

\* The program on its own: one bootstrap and the workers in an arbitrary environment;
\* no other program pushes to the queues.
NextBootstrap ==
    \/ schedule_initial_crawls
    \/ run_crawl_subreddit(Arbitrary)
    \/ run_crawl_post(Arbitrary)

BootstrapSpec == Init /\ [][NextBootstrap]_vars

\* the number of crawl-subreddit jobs for the feed in the queue
PendingPolls(feed) ==
    LET polls == { job \in BagToSet(queue) :
                     job.jobtype = "crawl-subreddit" /\ job.args[1] = feed }
    IN  BagCardinality([ job \in polls |-> queue[job] ])

\* the crawl-subreddit jobs among those the last operation pushed
PushedPolls == { i \in DOMAIN last.pushed : last.pushed[i].jobtype = "crawl-subreddit" }

\* C25: with a single bootstrap and nothing pushed from outside, at most one
\* crawl-subreddit job per feed is in the queue at any time, and a poll pushes at most
\* one crawl-subreddit job, for its own feed.
AtMostOnePollPerFeed ==
    /\ \A feed \in ConfiguredNames : PendingPolls(feed) <= 1
    /\ last.op = "crawl_subreddit" =>
          /\ Cardinality(PushedPolls) <= 1
          /\ \A i \in PushedPolls : last.pushed[i].args[1] = last.args[1]

\* a rate-limited poll was rescheduled: its retry is the one poll of its feed in the queue
RetryIsTheOnlyPoll ==
    /\ RateLimitedPoll
    /\ Cardinality(PushedPolls) = 1
    /\ PendingPolls(last.args[1]) = 1
    /\ LastRetryCount = 1

====
